---- MODULE Spec2Model ----
(***************************************************************************)
(* Notification subsystem of the repository:                               *)
(*   - chat/tasks.py  send_new_message_notifications, the periodic task    *)
(*     that mails every user the number of chat messages the other         *)
(*     participant of each of their chat rooms has sent;                   *)
(*   - users/signals.py  notify_user_ban_status_change, the pre-save       *)
(*     handler of UserProfile, as its body is reproduced in                *)
(*     users/tests/test_notify_user_ban_status_change_mcdc.py, and its     *)
(*     simulation in run_mcdc_demo.py.                                     *)
(***************************************************************************)
EXTENDS Integers, Sequences, FiniteSets, Bags, TLC

(* ------------------------------ bounds -------------------------------- *)
\* rows of the User table (pks 1..NumUsers)
NumUsers == 2
\* rows of the ChatRoom table at most
MaxRooms == 2
\* rows of the Message table at most
MaxMsgs == 2
\* calls of the two notification tasks' delay() at most
MaxDispatches == 2

VARIABLES
    rooms,      \* ChatRoom table: sequence of rows, the row's pk is its index
    messages,   \* Message table: bag of rows [room, sender]
    status,     \* position of the task: "idle", "running", "done", or
                \* "aborted" when an exception left the task
    idx,        \* number of users the for-loop of the task has finished
    calls,      \* calls of send_mail made by the task, in order
    outbox,     \* django.core.mail.outbox: the mails send_mail delivered
    profiles,   \* UserProfile table: sequence of rows, the row's pk is its index
    ban_calls,  \* calls of send_ban_notification_email.delay, in order
    unban_calls,\* calls of send_unban_notification_email.delay, in order
    last        \* the latest invocation of notify_user_ban_status_change

chatVars == <<rooms, messages, status, idx, calls, outbox>>

banVars == <<profiles, ban_calls, unban_calls, last>>

vars == <<rooms, messages, status, idx, calls, outbox,
          profiles, ban_calls, unban_calls, last>>

(* ------------------------- chat/tasks.py ------------------------------ *)

\* User.objects.all(): the users in primary-key order
Users == 1..NumUsers

UsersAll == [i \in 1..NumUsers |-> i]

\* Python's None; primary keys start at 1
None == 0

\* user.email, user.first_name, user.last_name
EmailOf(u) == <<"mail", u>>

FirstNameOf(u) == <<"first", u>>

LastNameOf(u) == <<"last", u>>

DEFAULT_FROM_EMAIL == "DEFAULT_FROM_EMAIL"

\* the pks of the ChatRoom table, in pk order
RoomPks == [i \in 1..Len(rooms) |-> i]

\* ChatRoom.objects.filter(participant_1=user)
chatrooms_as_p1(user) ==
    LET T(pk) == rooms[pk].participant_1 = user
    IN  SelectSeq(RoomPks, T)

\* ChatRoom.objects.filter(participant_2=user)
chatrooms_as_p2(user) ==
    LET T(pk) == rooms[pk].participant_2 = user
    IN  SelectSeq(RoomPks, T)

ToSet(s) == {s[i] : i \in DOMAIN s}

\* list(S): the elements of a set in some order
RECURSIVE ToList(_)
ToList(S) ==
    IF S = {} THEN <<>>
    ELSE LET x == CHOOSE y \in S : TRUE
         IN  <<x>> \o ToList(S \ {x})

\* the chat rooms of a user with one row kept per pair of participants
all_chatrooms_by_pair(user) ==
    LET all == ToSet(chatrooms_as_p1(user) \o chatrooms_as_p2(user))
        Pair(pk) == {rooms[pk].participant_1, rooms[pk].participant_2}
    IN  ToList({pk \in all : \A other \in all : Pair(other) = Pair(pk) => other >= pk})

\* the two query results concatenated, without set()
all_chatrooms_concatenated(user) ==
    chatrooms_as_p1(user) \o chatrooms_as_p2(user)

\* list(set(list(chatrooms_as_p1) + list(chatrooms_as_p2)))
all_chatrooms(user) ==
    ToList(ToSet(chatrooms_as_p1(user) \o chatrooms_as_p2(user)))

other_participant_swapped(chatroom, user) ==
    IF chatroom.participant_1 = user THEN chatroom.participant_1
    ELSE IF chatroom.participant_2 = user THEN chatroom.participant_2
    ELSE None

\* the if without its elif branch
other_participant_no_elif(chatroom, user) ==
    IF chatroom.participant_1 = user THEN chatroom.participant_2
    ELSE None

\* the if/elif that picks the other participant of a chat room; None when
\* the user is neither participant

other_participant(chatroom, user) ==
    IF chatroom.participant_1 = user THEN chatroom.participant_2
    ELSE IF chatroom.participant_2 = user THEN chatroom.participant_1
    ELSE None

\* Message.objects.filter(room=chatroom, sender=other).count()
MessageCount(room, sender) ==
    CopiesIn([room |-> room, sender |-> sender], messages)

\* the inner for-loop: new_messages_count after all chat rooms of the user
RECURSIVE CountOver(_, _)
CountOver(list, user) ==
    IF list = <<>> THEN 0
    ELSE LET other == other_participant(rooms[Head(list)], user)
             rest  == CountOver(Tail(list), user)
         IN  IF other # None THEN rest + MessageCount(Head(list), other)
             ELSE rest

new_messages_count(user) == CountOver(all_chatrooms(user), user)

\* f'{n}': the decimal digits of a natural number
DigitChar == <<"0", "1", "2", "3", "4", "5", "6", "7", "8", "9">>

RECURSIVE Str(_)
Str(n) ==
    IF n < 10 THEN <<DigitChar[n + 1]>>
    ELSE Str(n \div 10) \o <<DigitChar[(n % 10) + 1]>>

\* the two f-strings, as sequences of text pieces
Subject(n) == <<"Voce tem novas mensagens (">> \o Str(n) \o <<")">>

Body(n) ==
    <<"Voce tem ">> \o Str(n)
        \o <<" novas mensagens nao lidas. Acesse o AcheiUnB para visualiza-las.">>

\* the arguments of send_mail for a user with n new messages
Mail(user, n) ==
    [subject        |-> Subject(n),
     message        |-> Body(n),
     from_email     |-> DEFAULT_FROM_EMAIL,
     recipient_list |-> <<EmailOf(user)>>]

\* the condition of "if new_messages_count > 0"
ShouldNotifyAlways(n) == n >= 0

ShouldNotify(n) == n > 0

\* whether a failure of send_mail leaves the try statement: "except Exception"
\* catches it and only prints
PropagatesUncaught(raised) == raised

Propagates(raised) == FALSE

\* no invocation of the ban handler yet
NoInvocation == [via |-> "none"]

InitBan ==
    /\ profiles = <<>>
    /\ ban_calls = <<>>
    /\ unban_calls = <<>>
    /\ last = NoInvocation

InitChat ==
    /\ rooms = <<>>
    /\ messages = EmptyBag
    /\ status = "idle"
    /\ idx = 0
    /\ calls = <<>>
    /\ outbox = <<>>

Init == InitChat /\ InitBan

\* ChatRoom.objects.create(participant_1=p1, participant_2=p2)
CreateChatRoom ==
    /\ status = "idle"
    /\ Len(rooms) < MaxRooms
    /\ \E p1 \in Users, p2 \in Users :
           rooms' = Append(rooms, [participant_1 |-> p1, participant_2 |-> p2])
    /\ UNCHANGED <<messages, status, idx, calls, outbox>>
    /\ UNCHANGED banVars

\* Message.objects.create(room=room, sender=sender, content=...)
CreateMessage ==
    /\ status = "idle"
    /\ BagCardinality(messages) < MaxMsgs
    /\ \E room \in DOMAIN rooms, sender \in Users :
           messages' = messages (+) SetToBag({[room |-> room, sender |-> sender]})
    /\ UNCHANGED <<rooms, status, idx, calls, outbox>>
    /\ UNCHANGED banVars

\* the task is started: users = User.objects.all()
StartTask ==
    /\ status = "idle"
    /\ status' = "running"
    /\ UNCHANGED <<rooms, messages, idx, calls, outbox>>
    /\ UNCHANGED banVars

\* one iteration of "for user in users": the count, the test and the send
\* inside try/except; send_mail either delivers or raises
ProcessUser ==
    /\ status = "running"
    /\ idx < NumUsers
    /\ LET user == UsersAll[idx + 1]
           n    == new_messages_count(user)
       IN  IF ShouldNotify(n)
           THEN \E raised \in BOOLEAN :
                    /\ calls' = Append(calls, [args |-> Mail(user, n), raised |-> raised])
                    /\ outbox' = IF raised THEN outbox ELSE Append(outbox, Mail(user, n))
                    /\ status' = IF Propagates(raised) THEN "aborted" ELSE status
                    /\ idx' = IF Propagates(raised) THEN idx ELSE idx + 1
           ELSE /\ idx' = idx + 1
                /\ UNCHANGED <<calls, outbox, status>>
    /\ UNCHANGED <<rooms, messages>>
    /\ UNCHANGED banVars

\* the for-loop is exhausted and the task returns
ReturnTask ==
    /\ status = "running"
    /\ idx = NumUsers
    /\ status' = "done"
    /\ UNCHANGED <<rooms, messages, idx, calls, outbox>>
    /\ UNCHANGED banVars

NextChat ==
    \/ CreateChatRoom
    \/ CreateMessage
    \/ StartTask
    \/ ProcessUser
    \/ ReturnTask

SpecChat == Init /\ [][NextChat]_vars

(* ------- users/signals.py: notify_user_ban_status_change -------------- *)

\* what sender.objects.get(pk=instance.pk) does: it returns a row or raises
\* sender.DoesNotExist
DoesNotExist == [exc |-> "DoesNotExist", row |-> <<>>]

Returns(row) == [exc |-> "", row |-> <<row>>]

\* the try/except around the lookup: previous is the row, or None (the empty
\* sequence) when the lookup raised DoesNotExist
TryGetDefaultRow(lookup) ==
    IF lookup.exc = "DoesNotExist"
    THEN <<[user |-> None, is_banned |-> FALSE]>>
    ELSE lookup.row

TryGet(lookup) ==
    IF lookup.exc = "DoesNotExist" THEN <<>> ELSE lookup.row

\* D1: if not instance.pk
D1_Never(instance) == FALSE

D1(instance) == instance.pk = None

\* D2: if previous
D2(previous) == previous # <<>>

\* D3: if previous.is_banned != instance.is_banned
D3_Always(previous, instance) == TRUE

D3_Equal(previous, instance) == previous[1].is_banned = instance.is_banned

D3(previous, instance) == previous[1].is_banned # instance.is_banned

\* D4: if instance.is_banned
D4_Inverted(instance) == ~instance.is_banned

D4(instance) == instance.is_banned

\* the arguments of both delay() calls: user.email, user.first_name,
\* user.last_name
DispatchArgs(user) == <<EmailOf(user), FirstNameOf(user), LastNameOf(user)>>

\* what one invocation did: the lookups it made, the delay() calls it made
\* on either task, and what it returned
Effect(lookups, ban, unban) ==
    [lookups |-> lookups, ban |-> ban, unban |-> unban, returned |-> "None",
     raised |-> ""]

\* a failure of the lookup other than DoesNotExist
LookupFailure == [exc |-> "DatabaseError", row |-> <<>>]

\* whether a failure of the lookup leaves the handler: "except
\* sender.DoesNotExist" catches that exception only
LookupPropagatesNever(lookup) == FALSE

LookupPropagates(lookup) == lookup.exc \notin {"", "DoesNotExist"}

\* what an invocation did that the lookup's exception left: one lookup, no
\* delay() call, nothing returned
Raises(exc) ==
    [lookups |-> 1, ban |-> <<>>, unban |-> <<>>, returned |-> "", raised |-> exc]

\* a handler that skips the ban dispatch for a user who already has one
notify_once_per_user(instance, lookup) ==
    IF D1(instance) THEN Effect(0, <<>>, <<>>)
    ELSE IF LookupPropagates(lookup) THEN Raises(lookup.exc)
    ELSE LET previous == TryGet(lookup)
             user     == instance.user
         IN  IF D2(previous)
             THEN IF D3(previous, instance)
                  THEN IF D4(instance)
                       THEN IF \E i \in DOMAIN ban_calls : ban_calls[i] = DispatchArgs(user)
                            THEN Effect(1, <<>>, <<>>)
                            ELSE Effect(1, <<DispatchArgs(user)>>, <<>>)
                       ELSE Effect(1, <<>>, <<DispatchArgs(user)>>)
                  ELSE Effect(1, <<>>, <<>>)
             ELSE Effect(1, <<>>, <<>>)

\* a handler that decides but leaves the delay() calls to its caller
notify_decides_only(instance, lookup) ==
    IF D1(instance) THEN Effect(0, <<>>, <<>>)
    ELSE IF LookupPropagates(lookup) THEN Raises(lookup.exc)
    ELSE Effect(1, <<>>, <<>>)

\* a handler whose unban call is not under the else of D4
notify_without_else(instance, lookup) ==
    IF D1(instance) THEN Effect(0, <<>>, <<>>)
    ELSE IF LookupPropagates(lookup) THEN Raises(lookup.exc)
    ELSE LET previous == TryGet(lookup)
             user     == instance.user
         IN  IF D2(previous)
             THEN IF D3(previous, instance)
                  THEN IF D4(instance)
                       THEN Effect(1, <<DispatchArgs(user)>>, <<DispatchArgs(user)>>)
                       ELSE Effect(1, <<>>, <<DispatchArgs(user)>>)
                  ELSE Effect(1, <<>>, <<>>)
             ELSE Effect(1, <<>>, <<>>)

\* the handler, as reproduced in the docstring of the MC/DC test class
notify_user_ban_status_change(instance, lookup) ==
    IF D1(instance) THEN Effect(0, <<>>, <<>>)
    ELSE IF LookupPropagates(lookup) THEN Raises(lookup.exc)
    ELSE LET previous == TryGet(lookup)
             user     == instance.user
         IN  IF D2(previous)
             THEN IF D3(previous, instance)
                  THEN IF D4(instance)
                       THEN Effect(1, <<DispatchArgs(user)>>, <<>>)
                       ELSE Effect(1, <<>>, <<DispatchArgs(user)>>)
                  ELSE Effect(1, <<>>, <<>>)
             ELSE Effect(1, <<>>, <<>>)

\* run_mcdc_demo.py: the simulated handler, which prints instead of calling
\* delay() and returns a string that names what it decided
demo_notify_user_ban_status_change(instance, lookup) ==
    IF ~(instance.pk # None) THEN "None"
    ELSE IF lookup.exc \notin {"", "DoesNotExist"} THEN "raised"
    ELSE LET previous == IF lookup.exc = "DoesNotExist" THEN <<>> ELSE lookup.row
         IN  IF previous # <<>>
             THEN IF previous[1].is_banned # instance.is_banned
                  THEN IF instance.is_banned THEN "ban_sent" ELSE "unban_sent"
                  ELSE "no_action"
             ELSE "no_action"

\* the in-memory UserProfile objects a caller can pass: unsaved (pk None) or
\* saved, for any user, banned or not
Instances ==
    [pk : {None} \cup Users, user : Users, is_banned : BOOLEAN]

\* what the lookup can answer for an instance: no row, or a row of the same
\* user with either flag
LookupResults(instance) ==
    {DoesNotExist}
        \cup {Returns([user |-> instance.user, is_banned |-> b]) : b \in BOOLEAN}

\* UserProfile.objects.get(pk=pk) on the table
DbGet(pk) ==
    IF pk \in DOMAIN profiles THEN Returns(profiles[pk]) ELSE DoesNotExist

\* one invocation of the handler on an instance, the lookup answering
\* `lookup`: the delay() calls are appended to the tasks' call lists and the
\* invocation is recorded
Invoke(instance, lookup, via) ==
    LET eff == notify_user_ban_status_change(instance, lookup)
    IN  /\ Len(ban_calls) + Len(unban_calls) < MaxDispatches
        /\ ban_calls' = ban_calls \o eff.ban
        /\ unban_calls' = unban_calls \o eff.unban
        /\ last' = [via      |-> via,
                    instance |-> instance,
                    lookup   |-> lookup,
                    effect   |-> eff,
                    demo     |-> demo_notify_user_ban_status_change(instance, lookup)]

\* notify_user_ban_status_change(UserProfile, profile) called directly, the
\* lookup patched or not (CT1 to CT5)
CallHandler ==
    /\ \E instance \in Instances :
           \E lookup \in LookupResults(instance) :
               Invoke(instance, lookup, "direct")
    /\ UNCHANGED profiles
    /\ UNCHANGED chatVars

\* the users without a UserProfile row (the relation is one-to-one)
UsersWithoutProfile ==
    {u \in Users : \A pk \in DOMAIN profiles : profiles[pk].user # u}

\* UserProfile.objects.create(user=u, is_banned=b): the pre-save handler runs
\* on the unsaved instance, then the row is inserted
CreateProfile ==
    /\ \E u \in UsersWithoutProfile, b \in BOOLEAN :
           /\ Invoke([pk |-> None, user |-> u, is_banned |-> b], DbGet(None), "create")
           /\ profiles' = Append(profiles, [user |-> u, is_banned |-> b])
    /\ UNCHANGED chatVars

\* profile.is_banned = b; profile.save() on a stored profile: the pre-save
\* handler runs while the table still holds the row as last saved, then the
\* row is updated
SaveProfile ==
    /\ \E pk \in DOMAIN profiles, b \in BOOLEAN :
           /\ Invoke([pk |-> pk, user |-> profiles[pk].user, is_banned |-> b],
                     DbGet(pk), "save")
           /\ profiles' = [profiles EXCEPT ![pk].is_banned = b]
    /\ UNCHANGED chatVars

NextBan ==
    \/ CallHandler
    \/ CreateProfile
    \/ SaveProfile

SpecBan == Init /\ [][NextBan]_vars

(* --------------- failures of the persistence collaborator ------------- *)

\* the queries one iteration of the loop makes before it sends: the users
\* query is evaluated when the loop starts, the two chat room queries by
\* list(), the message count for every chat room that has another participant
QueriesOf(i) ==
    (IF i = 0 THEN {"users"} ELSE {})
        \cup {"chatrooms"}
        \cup (IF all_chatrooms(UsersAll[i + 1]) # <<>> THEN {"messages"} ELSE {})

\* a query of the iteration for the next user raises: nothing in the task
\* catches it, so the exception leaves the task before this user's send
PersistenceFailure ==
    /\ status = "running"
    /\ idx < NumUsers
    /\ \E query \in QueriesOf(idx) : status' = "aborted"
    /\ UNCHANGED <<rooms, messages, idx, calls, outbox>>
    /\ UNCHANGED banVars

\* the handler called while sender.objects.get raises something other than
\* DoesNotExist
CallHandlerLookupFails ==
    /\ \E instance \in Instances : Invoke(instance, LookupFailure, "direct")
    /\ UNCHANGED profiles
    /\ UNCHANGED chatVars

\* the task and the handler share no state: a behaviour with failures
\* exercises one of the two
HandlerUntouched == profiles = <<>> /\ last = NoInvocation

TaskUntouched == status = "idle" /\ rooms = <<>>

NextFaults ==
    \/ (HandlerUntouched /\ CreateChatRoom)
    \/ (HandlerUntouched /\ CreateMessage)
    \/ (HandlerUntouched /\ StartTask)
    \/ (HandlerUntouched /\ ProcessUser)
    \/ (HandlerUntouched /\ ReturnTask)
    \/ (HandlerUntouched /\ PersistenceFailure)
    \/ (TaskUntouched /\ CallHandler)
    \/ (TaskUntouched /\ CallHandlerLookupFails)

SpecFaults == Init /\ [][NextFaults]_vars

(* ----------------- properties of the unread-message task -------------- *)

\* whether a row of the Message table is unread for user u: u takes part in
\* the message's chat room and the sender is the other participant (in a room
\* of u with u alone the other participant is u)
IsUnreadFor(m, u) ==
    LET r == rooms[m.room]
    IN  /\ u \in {r.participant_1, r.participant_2}
        /\ m.sender \in {r.participant_1, r.participant_2}
        /\ (m.sender # u \/ r.participant_1 = r.participant_2)

\* the unread count of u, counted over the rows of the Message table
UnreadCount(u) ==
    LET rows == {m \in BagToSet(messages) : IsUnreadFor(m, u)}
    IN  BagCardinality([m \in rows |-> messages[m]])

Contains(s, t) ==
    \E i \in 0..(Len(s) - Len(t)) : SubSeq(s, i + 1, i + Len(t)) = t

\* the calls of send_mail, and the delivered mails, with u's address among
\* the recipients
CallsTo(u) == {i \in DOMAIN calls : EmailOf(u) \in ToSet(calls[i].args.recipient_list)}

MailsTo(u) == {i \in DOMAIN outbox : EmailOf(u) \in ToSet(outbox[i].recipient_list)}

\* a mail addressed only to u whose subject and body contain the number n
CarriesCount(mail, u, n) ==
    /\ mail.recipient_list = <<EmailOf(u)>>
    /\ Contains(mail.subject, Str(n))
    /\ Contains(mail.message, Str(n))

\* C1 as stated: when the task has returned, every user with a positive unread
\* count N has exactly one mail in the outbox, addressed only to them, with N
\* in the subject and in the body.
C1_AsStated ==
    status = "done" =>
        \A u \in Users :
            UnreadCount(u) > 0 =>
                /\ Cardinality(MailsTo(u)) = 1
                /\ \A i \in MailsTo(u) : CarriesCount(outbox[i], u, UnreadCount(u))

\* C1 (amended): when the task has returned, for every user with a positive
\* unread count N exactly one call of send_mail was made for them, addressed
\* only to them, with N in the subject and in the body; that mail is in the
\* outbox exactly once if the call did not raise, and no mail for them is in
\* the outbox if it raised.
C1_OneSendPerUnreadUser ==
    status = "done" =>
        \A u \in Users :
            UnreadCount(u) > 0 =>
                /\ Cardinality(CallsTo(u)) = 1
                /\ \A i \in CallsTo(u) :
                       /\ CarriesCount(calls[i].args, u, UnreadCount(u))
                       /\ calls[i].args.from_email = DEFAULT_FROM_EMAIL
                       /\ IF calls[i].raised
                          THEN MailsTo(u) = {}
                          ELSE /\ Cardinality(MailsTo(u)) = 1
                               /\ \A j \in MailsTo(u) : outbox[j] = calls[i].args

\* the task returned after a user with unread messages in two chat rooms was
\* mailed their total once
C1_Witness ==
    /\ status = "done"
    /\ \E u \in Users :
           /\ UnreadCount(u) >= 2
           /\ Cardinality({m \in BagToSet(messages) : IsUnreadFor(m, u)}) >= 2
           /\ Cardinality(CallsTo(u)) = 1
           /\ Cardinality(MailsTo(u)) = 1

\* the chat rooms of u
RoomsOf(u) ==
    {r \in DOMAIN rooms : u \in {rooms[r].participant_1, rooms[r].participant_2}}

\* u is the only sender in every chat room of u, each of which has a second,
\* distinct participant
OnlySender(u) ==
    /\ \A r \in RoomsOf(u) : rooms[r].participant_1 # rooms[r].participant_2
    /\ \A m \in BagToSet(messages) : m.room \in RoomsOf(u) => m.sender = u

UserOfCall(i) == CHOOSE u \in Users : calls[i].args.recipient_list = <<EmailOf(u)>>

\* C3: a send_mail failure never aborts the task and is never retried: the
\* task is never aborted and returns only after the loop has passed every
\* user, the user of a failed call has no other call, and every user after
\* them in the loop that the loop has passed and that has a positive unread
\* count has a call of their own, made after the failed one.
C3_FailureIsolated ==
    /\ status # "aborted"
    /\ status = "done" => idx = NumUsers
    /\ \A i \in DOMAIN calls :
           calls[i].raised =>
               /\ CallsTo(UserOfCall(i)) = {i}
               /\ \A v \in Users :
                      (v > UserOfCall(i) /\ v <= idx /\ UnreadCount(v) > 0) =>
                          \E j \in CallsTo(v) : j > i

\* the task returned although the send for the first user raised, and a send
\* for a later user was made
C3_Witness ==
    /\ status = "done"
    /\ \E i, j \in DOMAIN calls :
           /\ calls[i].raised
           /\ j > i
           /\ UserOfCall(j) > UserOfCall(i)

(* ------------------ properties of the ban-status handler -------------- *)

\* an invocation of the handler has been made
Invoked == last.via # "none"

\* the four inputs of the latest invocation: whether instance.pk is present,
\* whether the lookup finds (or would find) a row, the flag of that row, and
\* the flag of the instance
PkPresent(inv) == inv.instance.pk # None

Found(inv) == inv.lookup.exc = ""

PreviousFlag(inv) == IF Found(inv) THEN inv.lookup.row[1].is_banned ELSE FALSE

InstanceFlag(inv) == inv.instance.is_banned

FourInputs(inv) == <<PkPresent(inv), Found(inv), PreviousFlag(inv), InstanceFlag(inv)>>

\* the outcome of an invocation, read off the delay() calls it made
Outcome(inv) ==
    IF inv.effect.ban # <<>> THEN "BanNotification"
    ELSE IF inv.effect.unban # <<>> THEN "UnbanNotification"
    ELSE "NoAction"

NoDispatch(inv) == inv.effect.ban = <<>> /\ inv.effect.unban = <<>>

\* C4: an invocation on an instance without pk has outcome NoAction whatever
\* the lookup would answer and whatever the two flags are: it returns before
\* the lookup and calls neither delay(); the simulation returns None.
C4_NoPkNoAction ==
    (Invoked /\ ~PkPresent(last)) =>
        /\ Outcome(last) = "NoAction"
        /\ NoDispatch(last)
        /\ last.effect.lookups = 0
        /\ last.demo = "None"

\* the handler was called on an unsaved instance while the lookup would have
\* found a row with the other flag
C4_Witness ==
    /\ Invoked
    /\ ~PkPresent(last)
    /\ Found(last)
    /\ PreviousFlag(last) # InstanceFlag(last)
    /\ NoDispatch(last)

\* C5: an invocation with a pk whose lookup raises DoesNotExist returns
\* normally with outcome NoAction and calls neither delay(), whatever the
\* instance's flag; the simulation returns "no_action".
C5_NotFoundNoAction ==
    (Invoked /\ PkPresent(last) /\ ~Found(last)) =>
        /\ Outcome(last) = "NoAction"
        /\ NoDispatch(last)
        /\ last.effect.lookups = 1
        /\ last.effect.returned = "None"
        /\ last.demo = "no_action"

\* the handler was called on a banned instance with a pk and the lookup
\* raised DoesNotExist
C5_Witness ==
    /\ Invoked
    /\ PkPresent(last)
    /\ ~Found(last)
    /\ InstanceFlag(last)
    /\ NoDispatch(last)

\* C6: an invocation that finds a previous row with the same flag as the
\* instance (both false or both true) has outcome NoAction and calls neither
\* delay(); the simulation returns "no_action".
C6_SameFlagNoAction ==
    (Invoked /\ PkPresent(last) /\ Found(last)
        /\ PreviousFlag(last) = InstanceFlag(last)) =>
        /\ Outcome(last) = "NoAction"
        /\ NoDispatch(last)
        /\ last.demo = "no_action"

\* the handler found a banned previous row for a banned instance
C6_Witness ==
    /\ Invoked
    /\ PkPresent(last)
    /\ Found(last)
    /\ PreviousFlag(last)
    /\ InstanceFlag(last)
    /\ NoDispatch(last)

\* C7: an invocation that finds a previous row whose flag differs from the
\* instance's makes exactly one delay() call, with the email, first name and
\* last name of instance.user: on the ban task and not the unban task when
\* the instance is banned, on the unban task and not the ban task when it is
\* not; the call is the latest of that task's call list.
C7_FlagChangeDispatchesOnce ==
    (Invoked /\ PkPresent(last) /\ Found(last)
        /\ PreviousFlag(last) # InstanceFlag(last)) =>
        LET args == <<EmailOf(last.instance.user),
                      FirstNameOf(last.instance.user),
                      LastNameOf(last.instance.user)>>
        IN  IF InstanceFlag(last)
            THEN /\ last.effect.ban = <<args>>
                 /\ last.effect.unban = <<>>
                 /\ ban_calls # <<>>
                 /\ ban_calls[Len(ban_calls)] = args
                 /\ last.demo = "ban_sent"
            ELSE /\ last.effect.unban = <<args>>
                 /\ last.effect.ban = <<>>
                 /\ unban_calls # <<>>
                 /\ unban_calls[Len(unban_calls)] = args
                 /\ last.demo = "unban_sent"

\* a ban and an unban have both been dispatched, the unban by the latest
\* invocation
C7_Witness ==
    /\ Invoked
    /\ PreviousFlag(last)
    /\ ~InstanceFlag(last)
    /\ Len(unban_calls) = 1
    /\ Len(ban_calls) = 1

\* C8: a save() of a stored profile runs the handler against the row as last
\* saved: when the flag was flipped exactly one delay() call is made, on the
\* ban task for false to true and on the unban task for true to false, with
\* the user's email, first name and last name, and when it was not flipped
\* none is made; the create of a profile makes none.
C8_SaveDispatchesOnFlip ==
    /\ (Invoked /\ last.via = "save") =>
           LET user == last.instance.user
               args == <<EmailOf(user), FirstNameOf(user), LastNameOf(user)>>
           IN  /\ Found(last)
               /\ profiles[last.instance.pk].is_banned = InstanceFlag(last)
               /\ (~PreviousFlag(last) /\ InstanceFlag(last)) =>
                      (last.effect.ban = <<args>> /\ last.effect.unban = <<>>)
               /\ (PreviousFlag(last) /\ ~InstanceFlag(last)) =>
                      (last.effect.unban = <<args>> /\ last.effect.ban = <<>>)
               /\ (PreviousFlag(last) = InstanceFlag(last)) => NoDispatch(last)
    /\ (Invoked /\ last.via = "create") => NoDispatch(last)

\* a profile created unbanned was banned by save(): one ban dispatch, for its
\* user, and the table holds the new flag
C8_Witness ==
    /\ Invoked
    /\ last.via = "save"
    /\ ~PreviousFlag(last)
    /\ InstanceFlag(last)
    /\ ban_calls = <<DispatchArgs(last.instance.user)>>
    /\ unban_calls = <<>>
    /\ profiles[last.instance.pk].is_banned

\* the outcome the four decisions D1 to D4 give for the four inputs
DecisionTable(pkPresent, found, previousFlag, instanceFlag) ==
    IF ~pkPresent THEN "NoAction"
    ELSE IF ~found THEN "NoAction"
    ELSE IF previousFlag = instanceFlag THEN "NoAction"
    ELSE IF instanceFlag THEN "BanNotification"
    ELSE "UnbanNotification"

Decision(inv) ==
    DecisionTable(PkPresent(inv), Found(inv), PreviousFlag(inv), InstanceFlag(inv))

\* C9 as stated: the handler never calls delay() itself, whatever it decides;
\* the dispatch is left to a caller.
C9_AsStated == Invoked => NoDispatch(last)

\* C9 (amended): the handler never calls send_mail, but it makes the delay()
\* call of its decision itself, during the invocation, and returns None: when
\* the decision is BanNotification it has called the ban task's delay() once,
\* when UnbanNotification the unban task's, when NoAction neither.
C9_HandlerEnqueuesItself ==
    Invoked =>
        /\ last.effect.returned = "None"
        /\ calls = <<>>
        /\ outbox = <<>>
        /\ Decision(last) = "BanNotification" =>
               (Len(last.effect.ban) = 1 /\ last.effect.unban = <<>>)
        /\ Decision(last) = "UnbanNotification" =>
               (Len(last.effect.unban) = 1 /\ last.effect.ban = <<>>)
        /\ Decision(last) = "NoAction" => NoDispatch(last)

\* the handler itself has put a call on the ban task's call list
C9_Witness ==
    /\ Invoked
    /\ last.via = "direct"
    /\ Len(last.effect.ban) = 1
    /\ ban_calls # <<>>
    /\ last.effect.returned = "None"

\* a step in which the handler is invoked again
NextInvocation == Invoked /\ last'.via # "none"

\* C10 as stated: an invocation that agrees with the one before it on the four
\* inputs has the same outcome and makes the same delay() calls.
C10_AsStated ==
    [][(NextInvocation /\ FourInputs(last') = FourInputs(last)) =>
           /\ Outcome(last') = Outcome(last)
           /\ last'.effect.ban = last.effect.ban
           /\ last'.effect.unban = last.effect.unban]_vars

\* C10 (amended): an invocation that agrees with the one before it on the four
\* inputs has the same outcome, calls delay() on the same task the same number
\* of times, and the simulation returns the same string; the arguments of the
\* delay() call are those of instance.user, so they are the same when the two
\* instances also have the same user.
C10_OutcomeFunctionOfFourInputs ==
    [][(NextInvocation /\ FourInputs(last') = FourInputs(last)) =>
           /\ Outcome(last') = Outcome(last)
           /\ Len(last'.effect.ban) = Len(last.effect.ban)
           /\ Len(last'.effect.unban) = Len(last.effect.unban)
           /\ last'.demo = last.demo
           /\ last'.instance.user = last.instance.user =>
                  /\ last'.effect.ban = last.effect.ban
                  /\ last'.effect.unban = last.effect.unban]_vars

\* two bans in a row were dispatched on the same four inputs for two different
\* users
C10_Witness ==
    /\ Invoked
    /\ Len(ban_calls) = 2
    /\ ban_calls[1] # ban_calls[2]
    /\ Outcome(last) = "BanNotification"

\* C11 as stated: every invocation performs one lookup of the previous row
\* and at most one delay() call, never one on each task.
C11_AsStated ==
    Invoked =>
        /\ last.effect.lookups = 1
        /\ Len(last.effect.ban) + Len(last.effect.unban) <= 1

\* C11 (amended): every invocation performs at most one lookup of the previous
\* row by primary key, exactly one when instance.pk is present and none when
\* it is absent, and at most one delay() call; in no invocation are the ban
\* task and the unban task both called.
C11_OneLookupAtMostOneDispatch ==
    Invoked =>
        /\ last.effect.lookups = (IF PkPresent(last) THEN 1 ELSE 0)
        /\ Len(last.effect.ban) + Len(last.effect.unban) <= 1
        /\ ~(last.effect.ban # <<>> /\ last.effect.unban # <<>>)
        /\ last.via = "save" => last.lookup = Returns(
               [user |-> last.instance.user, is_banned |-> PreviousFlag(last)])

\* a save() that banned a user: the handler looked the stored row up once and
\* called the ban task once
C11_Witness ==
    /\ Invoked
    /\ last.via = "save"
    /\ last.effect.lookups = 1
    /\ Len(last.effect.ban) = 1
    /\ last.effect.unban = <<>>

(* --------------------- properties under failures ---------------------- *)

\* C12: only a send_mail failure and a DoesNotExist lookup are handled. A
\* failed send never aborts the task and a DoesNotExist lookup lets the
\* handler return normally; a failing query aborts the task where it is, so
\* the user being processed and every later user have no send_mail call and
\* no mail, and the task does not return; any other lookup failure leaves the
\* handler as that exception, after one lookup and without a delay() call.
C12_OtherFailuresPropagate ==
    /\ status = "aborted" =>
           /\ idx < NumUsers
           /\ \A u \in Users : u > idx => (CallsTo(u) = {} /\ MailsTo(u) = {})
           /\ \A i \in DOMAIN calls : UserOfCall(i) <= idx
    /\ status = "done" => idx = NumUsers
    /\ (Invoked /\ PkPresent(last) /\ last.lookup.exc = "DoesNotExist") =>
           (last.effect.raised = "" /\ last.effect.returned = "None")
    /\ (Invoked /\ PkPresent(last) /\ last.lookup.exc \notin {"", "DoesNotExist"}) =>
           /\ last.effect.raised = last.lookup.exc
           /\ last.effect.returned = ""
           /\ last.effect.lookups = 1
           /\ NoDispatch(last)
           /\ last.demo = "raised"

\* the task was aborted by a failing query after a send that raised had been
\* survived, with a user with unread messages still unprocessed
C12_Witness ==
    /\ status = "aborted"
    /\ idx >= 1
    /\ \E i \in DOMAIN calls : calls[i].raised
    /\ \E u \in Users : u > idx /\ UnreadCount(u) > 0 /\ MailsTo(u) = {}

(* ------------- properties of the count over chat room rows ------------ *)

\* the messages of one ChatRoom row that are unread for u
RowUnread(r, u) ==
    LET rows == {m \in BagToSet(messages) : m.room = r /\ IsUnreadFor(m, u)}
    IN  BagCardinality([m \in rows |-> messages[m]])

RECURSIVE SumRows(_, _)
SumRows(S, u) ==
    IF S = {} THEN 0
    ELSE LET r == CHOOSE x \in S : TRUE
         IN  RowUnread(r, u) + SumRows(S \ {r}, u)

\* two ChatRoom rows with the same two participants, in either order
SamePair(r1, r2) ==
    {rooms[r1].participant_1, rooms[r1].participant_2}
        = {rooms[r2].participant_1, rooms[r2].participant_2}

HasDuplicateRows(u) ==
    \E r1, r2 \in RoomsOf(u) : r1 # r2 /\ SamePair(r1, r2)

CountedFor(m, u) ==
    /\ m.room \in ToSet(all_chatrooms(u))
    /\ other_participant(rooms[m.room], u) = m.sender

Participants(r) == {rooms[r].participant_1, rooms[r].participant_2}

\* every chat room has two distinct participants and every message was sent
\* by a participant of its chat room
WellFormedData ==
    /\ \A r \in DOMAIN rooms : rooms[r].participant_1 # rooms[r].participant_2
    /\ \A m \in BagToSet(messages) : m.sender \in Participants(m.room)

\* the counts the task computes for the first n users, added up
RECURSIVE SumCounts(_)
SumCounts(n) ==
    IF n = 0 THEN 0 ELSE new_messages_count(UsersAll[n]) + SumCounts(n - 1)

\* C14: with the tables as they are during one run, if every chat room has
\* two distinct participants and every message a participant as sender, each
\* message row is counted for exactly one user, the participant who did not
\* send it, and the counts of all users add up to the number of messages; a
\* message whose sender is no participant of its chat room is counted for no
\* user.
C14_EachMessageCountedOnce ==
    /\ WellFormedData =>
           /\ \A m \in BagToSet(messages) :
                  {u \in Users : CountedFor(m, u)} = Participants(m.room) \ {m.sender}
           /\ \A m \in BagToSet(messages) :
                  Cardinality({u \in Users : CountedFor(m, u)}) = 1
           /\ SumCounts(NumUsers) = BagCardinality(messages)
           /\ \A u \in Users : new_messages_count(u) = UnreadCount(u)
    /\ \A m \in BagToSet(messages) :
           m.sender \notin Participants(m.room) =>
               \A u \in Users : ~CountedFor(m, u)

\* the task returned over well-formed tables in which both participants of a
\* chat room had written: each was mailed the other's message
C14_Witness ==
    /\ status = "done"
    /\ WellFormedData
    /\ BagCardinality(messages) = 2
    /\ Cardinality(BagToSet(messages)) = 2
    /\ Len(calls) = 2
    /\ SumCounts(NumUsers) = 2

\* the task returned over tables with a message whose sender is no
\* participant of its chat room, and sent nothing
C14_WitnessOutsider ==
    /\ status = "done"
    /\ \E m \in BagToSet(messages) : m.sender \notin Participants(m.room)
    /\ BagCardinality(messages) = 1
    /\ calls = <<>>

\* the chat rooms of u whose two participants are both u
SelfRooms(u) ==
    {r \in DOMAIN rooms : rooms[r].participant_1 = u /\ rooms[r].participant_2 = u}

\* the user's own messages in the chat rooms of S, added up
RECURSIVE SumOwn(_, _)
SumOwn(S, u) ==
    IF S = {} THEN 0
    ELSE LET r == CHOOSE x \in S : TRUE
         IN  CopiesIn([room |-> r, sender |-> u], messages) + SumOwn(S \ {r}, u)

\* the messages of the participant that is not u in the two-party chat rooms
\* of S, added up
RECURSIVE SumFromOther(_, _)
SumFromOther(S, u) ==
    IF S = {} THEN 0
    ELSE LET r == CHOOSE x \in S : TRUE
             o == CHOOSE p \in Participants(r) : p # u
         IN  CopiesIn([room |-> r, sender |-> o], messages)
                 + SumFromOther(S \ {r}, u)

\* C15: every ChatRoom row enters a user's count at most once: the list of
\* chat rooms the task builds for a user holds each of the user's rows once,
\* also a row with the user as both participants, which both queries return;
\* for such a row the other participant is the user, and the user's own
\* messages in it are added, once, to the count that is mailed.
C15_RowCountedOncePerUser ==
    \A u \in Users :
        LET list == all_chatrooms(u)
        IN  /\ Len(list) = Cardinality(ToSet(list))
            /\ ToSet(list) = RoomsOf(u)
            /\ \A r \in SelfRooms(u) :
                   /\ r \in ToSet(chatrooms_as_p1(u)) \cap ToSet(chatrooms_as_p2(u))
                   /\ other_participant(rooms[r], u) = u
            /\ new_messages_count(u)
                   = SumOwn(SelfRooms(u), u)
                         + SumFromOther(RoomsOf(u) \ SelfRooms(u), u)
            /\ (status = "done" /\ SumOwn(SelfRooms(u), u) > 0) =>
                   /\ Cardinality(CallsTo(u)) = 1
                   /\ \A i \in CallsTo(u) :
                          calls[i].args.subject = Subject(new_messages_count(u))

\* the task returned after mailing "1" to a user whose only unread message is
\* their own, in a chat room with themself
C15_Witness ==
    /\ status = "done"
    /\ \E u \in Users :
           /\ SelfRooms(u) # {}
           /\ RoomsOf(u) = SelfRooms(u)
           /\ BagToSet(messages) = {[room |-> r, sender |-> u] : r \in SelfRooms(u)}
           /\ BagCardinality(messages) = 1
           /\ Cardinality(CallsTo(u)) = 1
           /\ \A i \in CallsTo(u) : calls[i].args.subject = Subject(1)

====
